---- MODULE Spec2Model ----
(***************************************************************************)
(* Model of tools/convert_sfx.py: the WAV -> BRR sound effect conversion   *)
(* pipeline (downmix, nearest-neighbour resample, silence trim, duration   *)
(* clamp, peak normalisation, block alignment) and the batch loop of       *)
(* main() over the MAPPINGS table.                                         *)
(*                                                                         *)
(* Python's float is an IEEE-754 double.  The three float computations of  *)
(* the program (src_rate / dst_rate and i += ratio in downsample,          *)
(* target_peak / peak and s * scale in normalize, max_dur * TARGET_RATE in *)
(* main) are modelled bit for bit: a double is held exactly as a fixed-    *)
(* point number, and every operation computes the exact result and rounds  *)
(* it to 53 significant bits, to nearest, ties to even.                    *)
(***************************************************************************)
EXTENDS Integers, Sequences, FiniteSets, TLC

\* ------------------------------------------------------------------------
\* Program constants
\* ------------------------------------------------------------------------
TARGET_RATE == 16000
SILENCE_THRESHOLD == 800
DEFAULT_TARGET_PEAK == 28000
LEAD_IN == 16
BRR_BLOCK == 16
INT16_MIN == -32768
INT16_MAX == 32767
MantBits == 53

\* ------------------------------------------------------------------------
\* Bounds of the model
\* ------------------------------------------------------------------------
LimbBits == 15
FracLimbs == 6
IntLimbs == 3
NumEntries == 6
MaxCh == 2
MaxFrames == 2
MaxRate == 10
MaxDownLen == 8
MaxLead == 18
MaxTail == 2
MaxNormLen == 3
MaxAlignLen == 40
MaxBody == 2

\* ------------------------------------------------------------------------
\* Small helpers on integers
\* ------------------------------------------------------------------------
Abs(x) == IF x < 0 THEN -x ELSE x

Min2(a, b) == IF a < b THEN a ELSE b

Max2(a, b) == IF a > b THEN a ELSE b

\* ------------------------------------------------------------------------
\* IEEE-754 double arithmetic on non-negative values
\*
\* A double is held exactly, as a fixed-point number: Limbs digits in base
\* 2^LimbBits, least significant first, the lowest FracLimbs of them below
\* the binary point.  Every double the program computes within the bounds
\* of this model lies on that grid.  An operation computes the exact result
\* and FRound rounds it to MantBits significant bits, ties to even.
\* ------------------------------------------------------------------------
Base == 2 ^ LimbBits

Limbs == FracLimbs + IntLimbs

FZero == [k \in 1..Limbs |-> 0] \o <<>>

\* The integer n (0 <= n < 2^31) as a fixed-point number.
FFromInt(n) ==
  [k \in 1..Limbs |->
     IF k = FracLimbs + 1 THEN n % Base
     ELSE IF k = FracLimbs + 2 THEN (n \div Base) % Base
     ELSE IF k = FracLimbs + 3 THEN n \div (Base * Base)
     ELSE 0] \o <<>>

\* x + y, exact: digit k and up, with the carry into digit k.
RECURSIVE AddDigits(_, _, _, _)
AddDigits(x, y, k, carry) ==
  IF k > Len(x) THEN <<>>
  ELSE LET t == x[k] + y[k] + carry
       IN  <<t % Base>> \o AddDigits(x, y, k + 1, t \div Base)

BAdd(x, y) == AddDigits(x, y, 1, 0)

\* x * n for an integer 0 <= n <= Base, exact.
RECURSIVE MulDigits(_, _, _, _)
MulDigits(x, n, k, carry) ==
  IF k > Len(x) THEN <<>>
  ELSE LET t == x[k] * n + carry
       IN  <<t % Base>> \o MulDigits(x, n, k + 1, t \div Base)

BMulSmall(x, n) == MulDigits(x, n, 1, 0)

\* n fraction digits of r / b (0 <= r < b), least significant first, and the
\* remainder left after them.
RECURSIVE DivDigits(_, _, _)
DivDigits(r, b, n) ==
  IF n = 0 THEN [q |-> <<>>, r |-> r]
  ELSE LET rest == DivDigits((r * Base) % b, b, n - 1)
       IN  [q |-> Append(rest.q, (r * Base) \div b), r |-> rest.r]

\* The number of significant bits of a digit, and of a fixed-point number.
DigitLen(v) == CHOOSE n \in 0..LimbBits : v < 2 ^ n /\ (n = 0 \/ v >= 2 ^ (n - 1))

BitLen(x) ==
  IF \A k \in 1..Limbs : x[k] = 0 THEN 0
  ELSE LET top == CHOOSE k \in 1..Limbs :
                    x[k] # 0 /\ \A j \in (k + 1)..Limbs : x[j] = 0
       IN  (top - 1) * LimbBits + DigitLen(x[top])

\* Bit p of x (bit 0 is the least significant bit of the grid).
Bit(x, p) == (x[(p \div LimbBits) + 1] \div (2 ^ (p % LimbBits))) % 2

\* Is any of the d lowest bits of x set?
LowAny(x, d) ==
  \/ \E k \in 1..(d \div LimbBits) : x[k] # 0
  \/ x[(d \div LimbBits) + 1] % (2 ^ (d % LimbBits)) # 0

\* x with its d lowest bits cleared.
ClearLow(x, d) ==
  [k \in 1..Limbs |->
     IF k <= d \div LimbBits THEN 0
     ELSE IF k = (d \div LimbBits) + 1
       THEN (x[k] \div (2 ^ (d % LimbBits))) * (2 ^ (d % LimbBits))
     ELSE x[k]] \o <<>>

\* 2^p on the grid.
BPow2(p) ==
  [k \in 1..Limbs |->
     IF k = (p \div LimbBits) + 1 THEN 2 ^ (p % LimbBits) ELSE 0] \o <<>>

\* The double nearest to x (plus a nonzero tail below the grid when sticky):
\* round to nearest, ties to even.
FRound(x, sticky) ==
  LET L == BitLen(x)
  IN  IF L <= MantBits THEN x
      ELSE LET d     == L - MantBits
               guard == Bit(x, d - 1)
               rest  == sticky \/ LowAny(x, d - 1)
               up    == guard = 1 /\ (rest \/ Bit(x, d) = 1)
               t     == ClearLow(x, d)
           IN  IF up THEN BAdd(t, BPow2(d)) ELSE t

\* a / b for integers a >= 0, 0 < b < 2 * Base (Python's true division of
\* two ints, which is correctly rounded): long division, digit by digit.
FDiv(a, b) ==
  LET f == DivDigits(a % b, b, FracLimbs)
  IN  FRound(f.q \o SubSeq(FFromInt(a \div b), FracLimbs + 1, Limbs), f.r # 0)

\* x + y for doubles x, y >= 0.
FAdd(x, y) == FRound(BAdd(x, y), FALSE)

\* x * n for a double x >= 0 and an integer 0 <= n <= Base (the int converts
\* to a double exactly).
FMulInt(x, n) == FRound(BMulSmall(x, n), FALSE)

\* int(x) for a double 0 <= x < 2^31: the integer part.
FInt(x) ==
  x[FracLimbs + 1] + Base * x[FracLimbs + 2] + Base * Base * x[FracLimbs + 3]

\* ------------------------------------------------------------------------
\* The conversion table (MAPPINGS): source WAV, output name, max duration.
\* max_dur is kept in milliseconds; the float literal 0.12 is the double
\* nearest to 120 / 1000.
\* ------------------------------------------------------------------------
MAPPINGS ==
  << [src |-> "Zap.wav",      out |-> "player_shoot", max_ms |-> 120],
     [src |-> "Zap02.wav",    out |-> "enemy_shoot",  max_ms |-> 120],
     [src |-> "explode.wav",  out |-> "explosion",    max_ms |-> 250],
     [src |-> "Hit01.wav",    out |-> "hit",          max_ms |-> 120],
     [src |-> "Bleep.wav",    out |-> "menu_select",  max_ms |-> 100],
     [src |-> "Bleep.wav",    out |-> "menu_move",    max_ms |-> 60],
     [src |-> "Bleep.wav",    out |-> "dialog_blip",  max_ms |-> 40],
     [src |-> "Test0001.wav", out |-> "level_up",     max_ms |-> 400],
     [src |-> "ShipHit.wav",  out |-> "heal",         max_ms |-> 250] >>

\* ------------------------------------------------------------------------
\* The pipeline stages
\* ------------------------------------------------------------------------
\* The inner loop of read_wav_mono: s += samples[i + c] for c in range(nch),
\* from channel c on (i is the 1-based index of the frame's first sample).
RECURSIVE FrameSum(_, _, _, _)
FrameSum(samples, i, c, nch) ==
  IF c >= nch THEN 0 ELSE samples[i + c] + FrameSum(samples, i, c + 1, nch)

\* The outer loop of read_wav_mono: for i in range(0, len(samples), nch).
RECURSIVE MonoFrom(_, _, _)
MonoFrom(samples, i, nch) ==
  IF i > Len(samples) THEN <<>>
  ELSE <<FrameSum(samples, i, 0, nch) \div nch>> \o MonoFrom(samples, i + nch, nch)

\* Mutant of read_wav_mono: the frame sum divided with truncation toward
\* zero (int(s / nch)) instead of floor division.
RECURSIVE MonoTruncFrom(_, _, _)
MonoTruncFrom(samples, i, nch) ==
  IF i > Len(samples) THEN <<>>
  ELSE LET s == FrameSum(samples, i, 0, nch)
       IN  <<IF s < 0 THEN -((-s) \div nch) ELSE s \div nch>>
             \o MonoTruncFrom(samples, i + nch, nch)

read_wav_mono_Trunc(samples, nch) == MonoTruncFrom(samples, 1, nch)

\* read_wav_mono on a decoded file: the interleaved samples of its frames.
read_wav_mono(samples, nch) == MonoFrom(samples, 1, nch)

\* The loop of downsample: while int(i) < len(samples).
RECURSIVE CursorWalk(_, _, _)
CursorWalk(samples, i, ratio) ==
  IF FInt(i) < Len(samples)
    THEN <<samples[FInt(i) + 1]>> \o CursorWalk(samples, FAdd(i, ratio), ratio)
    ELSE <<>>

\* Mutant of downsample: the ratio taken upside down (dst_rate / src_rate).
downsample_Inverted(samples, src_rate_, dst_rate_) ==
  CursorWalk(samples, FZero, FDiv(dst_rate_, src_rate_))

\* Mutant of downsample: the cursor advanced before the first sample is
\* taken, so the walk starts at ratio instead of 0.0.
downsample_Late(samples, src_rate_, dst_rate_) ==
  CursorWalk(samples, FDiv(src_rate_, dst_rate_), FDiv(src_rate_, dst_rate_))

downsample(samples, src_rate_, dst_rate_) ==
  CursorWalk(samples, FZero, FDiv(src_rate_, dst_rate_))

\* The loop of trim_silence: the 0-based index of the first sample above
\* the threshold, 0 when there is none.
RECURSIVE FirstLoud(_, _, _)
FirstLoud(samples, i, threshold_) ==
  IF i <= Len(samples) /\ Abs(samples[i]) <= threshold_
    THEN FirstLoud(samples, i + 1, threshold_)
    ELSE IF i > Len(samples) THEN 0 ELSE i - 1

\* Mutant of trim_silence: no lead-in, the buffer cut at the first loud sample.
trim_silence_NoLeadIn(samples, threshold_) ==
  SubSeq(samples, FirstLoud(samples, 1, threshold_) + 1, Len(samples))

trim_silence(samples, threshold_) ==
  LET start == Max2(0, FirstLoud(samples, 1, threshold_) - LEAD_IN)
  IN  SubSeq(samples, start + 1, Len(samples))

\* max_samples = int(max_dur * TARGET_RATE); trimmed[:max_samples]
MaxSamples(ms) == FInt(FMulInt(FDiv(ms, 1000), TARGET_RATE))

\* Mutant of truncate: the buffer brought to exactly max_samples, padded with
\* zeros when it is shorter.
truncate_Pad(samples, ms) ==
  [k \in 1..MaxSamples(ms) |-> IF k <= Len(samples) THEN samples[k] ELSE 0] \o <<>>

truncate(samples, ms) == SubSeq(samples, 1, Min2(Len(samples), MaxSamples(ms)))

\* peak = max(abs(s) for s in samples) if samples else 1
PeakOf(samples) ==
  IF Len(samples) = 0 THEN 1
  ELSE CHOOSE m \in {Abs(samples[k]) : k \in DOMAIN samples} :
         \A k \in DOMAIN samples : Abs(samples[k]) <= m

\* Mutant of ScaleSample: math.floor(s * scale) instead of int(s * scale).
ScaleSample_Floor(s, scale) ==
  IF s < 0
    THEN LET p == FMulInt(scale, -s)
         IN  IF \E k \in 1..FracLimbs : p[k] # 0 THEN -FInt(p) - 1 ELSE -FInt(p)
    ELSE FInt(FMulInt(scale, s))

\* int(s * scale): the double product, truncated toward zero.
ScaleSample(s, scale) ==
  IF s < 0 THEN -FInt(FMulInt(scale, -s)) ELSE FInt(FMulInt(scale, s))

Clamp16(v) == Max2(INT16_MIN, Min2(INT16_MAX, v))

normalize(samples, target_peak_) ==
  LET peak == PeakOf(samples)
  IN  IF peak = 0 THEN samples
      ELSE LET scale == FDiv(target_peak_, peak)
           IN  [k \in DOMAIN samples |-> Clamp16(ScaleSample(samples[k], scale))] \o <<>>

\* Mutant of align_brr: the test for a zero remainder left out, so an aligned
\* buffer gets a whole block of padding.
align_brr_Always(samples) ==
  samples \o [k \in 1..(BRR_BLOCK - (Len(samples) % BRR_BLOCK)) |-> 0]

align_brr(samples) ==
  LET remainder == Len(samples) % BRR_BLOCK
  IN  IF remainder # 0
        THEN samples \o [k \in 1..(BRR_BLOCK - remainder) |-> 0]
        ELSE samples

\* ------------------------------------------------------------------------
\* State
\* ------------------------------------------------------------------------
VARIABLES
  pc,              \* where the program is
  entry,           \* main: 1-based index of the MAPPINGS entry in the loop
  present,         \* environment: os.path.exists(src_path) for that entry
  max_ms,          \* main: max_dur of the entry, in milliseconds
  samples,         \* read_wav_mono: the interleaved samples unpacked
  nch,             \* read_wav_mono: channels of the file
  mono,            \* main: the mono samples
  src_rate,        \* main: the frame rate of the file
  dst_rate,        \* downsample: its dst_rate argument
  resampled,       \* main
  threshold,       \* trim_silence: its threshold argument
  trimmed,         \* main
  truncated,       \* main
  target_peak,     \* normalize: its target_peak argument
  normalized,      \* main
  aligned,         \* main
  success,         \* main
  total_brr_size,  \* main
  stdout,          \* the outcome lines printed, one per finished entry
  brr_runs,        \* environment: how many times snesbrr has been run
  summary,         \* the "=== Results ===" block, once printed
  traceback        \* the uncaught exception that ended the interpreter, if any

bufs == <<samples, nch, mono, src_rate, resampled, trimmed, truncated,
          normalized, aligned>>

args == <<dst_rate, threshold, target_peak>>

loop == <<entry, present, max_ms>>

totals == <<success, total_brr_size, stdout, summary, brr_runs>>

vars == <<pc, loop, bufs, args, totals, traceback>>

\* The entries of MAPPINGS the batch model runs over.
Table == SubSeq(MAPPINGS, 1, NumEntries)

NoSummary == [printed |-> FALSE, converted |-> 0, of |-> 0, bytes |-> 0]

SeqsUpTo(S, n) == UNION {[1..k -> S] : k \in 0..n}

Fill(n, v) == [k \in 1..n |-> v]

\* ------------------------------------------------------------------------
\* The stages, as steps of main's loop body
\* ------------------------------------------------------------------------
\* mono = the downmix of the unpacked samples (read_wav_mono's loop)
Downmix ==
  /\ pc = "downmix"
  /\ mono' = read_wav_mono(samples, nch)
  /\ pc' = "downsample"
  /\ UNCHANGED <<loop, samples, nch, src_rate, resampled, trimmed, truncated,
                 normalized, aligned, args, totals, traceback>>

\* resampled = downsample(mono, src_rate, TARGET_RATE)
Downsample ==
  /\ pc = "downsample"
  /\ resampled' = downsample(mono, src_rate, dst_rate)
  /\ pc' = "trim"
  /\ UNCHANGED <<loop, samples, nch, mono, src_rate, trimmed, truncated,
                 normalized, aligned, args, totals, traceback>>

\* trimmed = trim_silence(resampled, SILENCE_THRESHOLD)
TrimSilence ==
  /\ pc = "trim"
  /\ trimmed' = trim_silence(resampled, threshold)
  /\ pc' = "truncate"
  /\ UNCHANGED <<loop, samples, nch, mono, src_rate, resampled, truncated,
                 normalized, aligned, args, totals, traceback>>

\* truncated = trimmed[:int(max_dur * TARGET_RATE)]
Truncate ==
  /\ pc = "truncate"
  /\ truncated' = truncate(trimmed, max_ms)
  /\ pc' = "normalize"
  /\ UNCHANGED <<loop, samples, nch, mono, src_rate, resampled, trimmed,
                 normalized, aligned, args, totals, traceback>>

\* normalized = normalize(truncated)
Normalize ==
  /\ pc = "normalize"
  /\ normalized' = normalize(truncated, target_peak)
  /\ pc' = "align"
  /\ UNCHANGED <<loop, samples, nch, mono, src_rate, resampled, trimmed,
                 truncated, aligned, args, totals, traceback>>

\* aligned = align_brr(list(normalized))
Align ==
  /\ pc = "align"
  /\ aligned' = align_brr(normalized)
  /\ pc' = "write"
  /\ UNCHANGED <<loop, samples, nch, mono, src_rate, resampled, trimmed,
                 truncated, normalized, args, totals, traceback>>

\* ------------------------------------------------------------------------
\* The batch: main's loop over the table
\* ------------------------------------------------------------------------
\* The files the environment may hold for a source name, as decoded.
BatchWavs ==
  { [nch |-> 2, rate |-> 32000,
     samples |-> <<0, 0, 0, 0, 900, -901, 100, -101, 5000, 5000, -27, -28>>],
    [nch |-> 1, rate |-> 16000, samples |-> <<>>] }

\* The sizes the environment may report for an encoded .brr file.
BrrSizes == {9, 18}

\* The for loop moves to the next entry, or leaves the loop.
NextEntry ==
  /\ entry' = entry + 1
  /\ IF entry < NumEntries
       THEN /\ pc' = "check"
            /\ present' \in BOOLEAN
            /\ max_ms' = Table[entry + 1].max_ms
       ELSE /\ pc' = "summary"
            /\ present' = FALSE
            /\ max_ms' = max_ms

\* Mutant of CheckSource: the continue left out, so a missing source is
\* reported and then read all the same.
CheckSource_NoContinue ==
  /\ pc = "check"
  /\ pc' = "read"
  /\ stdout' = IF present THEN stdout
               ELSE Append(stdout, [entry |-> entry, event |-> "missing", bytes |-> 0])
  /\ UNCHANGED <<loop, success, total_brr_size, summary, brr_runs>>
  /\ UNCHANGED <<bufs, args, traceback>>

\* if not os.path.exists(src_path): print WARNING; continue
CheckSource ==
  /\ pc = "check"
  /\ IF present
       THEN /\ pc' = "read"
            /\ UNCHANGED <<loop, totals>>
       ELSE /\ stdout' = Append(stdout, [entry |-> entry, event |-> "missing", bytes |-> 0])
            /\ NextEntry
            /\ UNCHANGED <<success, total_brr_size, summary, brr_runs>>
  /\ UNCHANGED <<bufs, args, traceback>>

\* read_wav_mono up to struct.unpack: the file opens and decodes.
ReadWav ==
  /\ pc = "read"
  /\ \E f \in BatchWavs :
       /\ samples' = f.samples
       /\ nch' = f.nch
       /\ src_rate' = f.rate
  /\ pc' = "downmix"
  /\ UNCHANGED <<loop, mono, resampled, trimmed, truncated, normalized,
                 aligned, args, totals, traceback>>

\* wave.open, readframes or struct.unpack raises (wave.Error, EOFError,
\* struct.error): main catches nothing, the interpreter ends with a traceback.
ReadWavRaises ==
  /\ pc = "read"
  /\ pc' = "crashed"
  /\ traceback' = "wave.Error"
  /\ UNCHANGED <<loop, bufs, args, totals>>

\* write_wav(wav_out, aligned, TARGET_RATE)
WriteWav ==
  /\ pc = "write"
  /\ pc' = "encode"
  /\ UNCHANGED <<loop, bufs, args, totals, traceback>>

\* wave.open(filepath, 'wb') or writeframes raises OSError: uncaught.
WriteWavRaises ==
  /\ pc = "write"
  /\ pc' = "crashed"
  /\ traceback' = "OSError"
  /\ UNCHANGED <<loop, bufs, args, totals>>

\* convert_to_brr returns True: the size is added and the entry counted.
EncodeOk ==
  /\ pc = "encode"
  /\ \E brr_size \in BrrSizes :
       /\ total_brr_size' = total_brr_size + brr_size
       /\ stdout' = Append(stdout, [entry |-> entry, event |-> "converted", bytes |-> brr_size])
  /\ success' = success + 1
  /\ brr_runs' = brr_runs + 1
  /\ NextEntry
  /\ UNCHANGED <<bufs, args, summary, traceback>>

\* Mutant of EncodeFails: success += 1 placed after the if, so a failed
\* conversion is counted too.
EncodeFails_Counted ==
  /\ pc = "encode"
  /\ stdout' = Append(stdout, [entry |-> entry, event |-> "failed", bytes |-> 0])
  /\ brr_runs' = brr_runs + 1
  /\ success' = success + 1
  /\ NextEntry
  /\ UNCHANGED <<bufs, args, total_brr_size, summary, traceback>>

\* convert_to_brr returns False (snesbrr's return code is not 0).
EncodeFails ==
  /\ pc = "encode"
  /\ stdout' = Append(stdout, [entry |-> entry, event |-> "failed", bytes |-> 0])
  /\ brr_runs' = brr_runs + 1
  /\ NextEntry
  /\ UNCHANGED <<bufs, args, success, total_brr_size, summary, traceback>>

\* subprocess.run raises (snesbrr.exe is not there: FileNotFoundError) or
\* os.path.getsize does: uncaught.
EncodeRaises ==
  /\ pc = "encode"
  /\ pc' = "crashed"
  /\ traceback' = "FileNotFoundError"
  /\ UNCHANGED <<loop, bufs, args, totals>>

\* print the "=== Results ===" block
Summary ==
  /\ pc = "summary"
  /\ summary' = [printed |-> TRUE, converted |-> success, of |-> Len(Table),
                 bytes |-> total_brr_size]
  /\ pc' = "done"
  /\ UNCHANGED <<loop, bufs, args, success, total_brr_size, stdout, brr_runs, traceback>>

NoBufs ==
  /\ samples = <<>> /\ nch = 1 /\ mono = <<>> /\ src_rate = TARGET_RATE
  /\ resampled = <<>> /\ trimmed = <<>> /\ truncated = <<>>
  /\ normalized = <<>> /\ aligned = <<>>

MainArgs ==
  /\ dst_rate = TARGET_RATE
  /\ threshold = SILENCE_THRESHOLD
  /\ target_peak = DEFAULT_TARGET_PEAK

NoTotals ==
  /\ success = 0 /\ total_brr_size = 0 /\ stdout = <<>> /\ summary = NoSummary
  /\ brr_runs = 0

Init ==
  /\ pc = "check"
  /\ entry = 1
  /\ present \in BOOLEAN
  /\ max_ms = Table[1].max_ms
  /\ NoBufs /\ MainArgs /\ NoTotals
  /\ traceback = ""

Next ==
  \/ CheckSource
  \/ ReadWav
  \/ ReadWavRaises
  \/ Downmix
  \/ Downsample
  \/ TrimSilence
  \/ Truncate
  \/ Normalize
  \/ Align
  \/ WriteWav
  \/ WriteWavRaises
  \/ EncodeOk
  \/ EncodeFails
  \/ EncodeRaises
  \/ Summary

Spec == Init /\ [][Next]_vars

\* ------------------------------------------------------------------------
\* The stages on their own: each specification below starts in front of one
\* stage, with that stage's inputs drawn from a bounded set, and runs it.
\* ------------------------------------------------------------------------
Idle ==
  /\ entry = 1 /\ present = TRUE
  /\ NoTotals
  /\ traceback = ""

\* read_wav_mono's downmix loop
DownmixVals == {-101, 0, 100}

InitMono ==
  /\ pc = "downmix"
  /\ nch \in 1..MaxCh
  /\ samples \in UNION {[1..(nch * f) -> DownmixVals] : f \in 0..MaxFrames}
  /\ src_rate = TARGET_RATE
  /\ mono = <<>> /\ resampled = <<>> /\ trimmed = <<>> /\ truncated = <<>>
  /\ normalized = <<>> /\ aligned = <<>>
  /\ max_ms = 100
  /\ MainArgs /\ Idle

NextMono == Downmix

SpecMono == InitMono /\ [][NextMono]_vars

\* downsample
Ramp(n) == [k \in 1..n |-> 100 * k]

RatePairs ==
  ((1..MaxRate) \X (1..MaxRate))
    \cup {<<44100, 16000>>, <<32000, 16000>>, <<16000, 16000>>,
          <<8000, 16000>>, <<1600, 16000>>}

InitDown ==
  /\ pc = "downsample"
  /\ mono \in {Ramp(n) : n \in 0..MaxDownLen}
  /\ \E pr \in RatePairs : src_rate = pr[1] /\ dst_rate = pr[2]
  /\ samples = <<>> /\ nch = 1
  /\ resampled = <<>> /\ trimmed = <<>> /\ truncated = <<>>
  /\ normalized = <<>> /\ aligned = <<>>
  /\ max_ms = 100
  /\ threshold = SILENCE_THRESHOLD /\ target_peak = DEFAULT_TARGET_PEAK
  /\ Idle

NextDown == Downsample

SpecDown == InitDown /\ [][NextDown]_vars

\* trim_silence
Thresholds == {0, SILENCE_THRESHOLD}

TrimInputs ==
  { Fill(p, q) \o tail :
      p \in 0..MaxLead, q \in {0, -800}, tail \in SeqsUpTo({-801, 0, 801}, MaxTail) }

InitTrim ==
  /\ pc = "trim"
  /\ resampled \in TrimInputs
  /\ threshold \in Thresholds
  /\ samples = <<>> /\ nch = 1 /\ mono = <<>> /\ src_rate = TARGET_RATE
  /\ trimmed = <<>> /\ truncated = <<>> /\ normalized = <<>> /\ aligned = <<>>
  /\ max_ms = 100
  /\ dst_rate = TARGET_RATE /\ target_peak = DEFAULT_TARGET_PEAK
  /\ Idle

NextTrim == TrimSilence

SpecTrim == InitTrim /\ [][NextTrim]_vars

\* normalize
NormVals == {-32768, -27, 0, 27, 54, 803, 32767}

TargetPeaks == {1, DEFAULT_TARGET_PEAK, 32767}

InitNorm ==
  /\ pc = "normalize"
  /\ truncated \in SeqsUpTo(NormVals, MaxNormLen)
  /\ target_peak \in TargetPeaks
  /\ samples = <<>> /\ nch = 1 /\ mono = <<>> /\ src_rate = TARGET_RATE
  /\ resampled = <<>> /\ trimmed = <<>> /\ normalized = <<>> /\ aligned = <<>>
  /\ max_ms = 100
  /\ dst_rate = TARGET_RATE /\ threshold = SILENCE_THRESHOLD
  /\ Idle

NextNorm == Normalize

SpecNorm == InitNorm /\ [][NextNorm]_vars

\* align_brr
AlignInputs ==
  UNION { {Fill(n, 7), Ramp(n), [k \in 1..n |-> -k]} : n \in 0..MaxAlignLen }

InitAlign ==
  /\ pc = "align"
  /\ normalized \in AlignInputs
  /\ samples = <<>> /\ nch = 1 /\ mono = <<>> /\ src_rate = TARGET_RATE
  /\ resampled = <<>> /\ trimmed = <<>> /\ truncated = <<>> /\ aligned = <<>>
  /\ max_ms = 100
  /\ MainArgs /\ Idle

NextAlign == Align

SpecAlign == InitAlign /\ [][NextAlign]_vars

\* trim -> truncate -> normalize -> align, as main chains them
PipeLeads == {0, 3, 16, 20, 60}

PipeBodies == SeqsUpTo({-32768, 0, 27, 803, 10000}, MaxBody)

PipeDurations == {1, 2, 100}

InitPipe ==
  /\ pc = "trim"
  /\ resampled \in {Fill(p, 0) \o body : p \in PipeLeads, body \in PipeBodies}
  /\ max_ms \in PipeDurations
  /\ samples = <<>> /\ nch = 1 /\ mono = <<>> /\ src_rate = TARGET_RATE
  /\ trimmed = <<>> /\ truncated = <<>> /\ normalized = <<>> /\ aligned = <<>>
  /\ MainArgs /\ Idle

NextPipe ==
  \/ TrimSilence
  \/ Truncate
  \/ Normalize
  \/ Align

SpecPipe == InitPipe /\ [][NextPipe]_vars

\* ------------------------------------------------------------------------
\* Properties
\* ------------------------------------------------------------------------
\* The 1-based indices of the samples above the threshold.
Loud(buf, th) == {k \in DOMAIN buf : Abs(buf[k]) > th}

MinOf(S) == CHOOSE m \in S : \A x \in S : m <= x

\* buf from its 0-based index start on.
IsSuffixFrom(out, buf, start) ==
  /\ Len(out) = Len(buf) - start
  /\ \A j \in 1..Len(out) : out[j] = buf[start + j]

IsPrefixOf(out, buf) ==
  /\ Len(out) <= Len(buf)
  /\ \A j \in 1..Len(out) : out[j] = buf[j]

\* a / b truncated toward zero, b > 0
TruncDiv(a, b) == IF a < 0 THEN -((-a) \div b) ELSE a \div b

Sign(a) == IF a < 0 THEN -1 ELSE IF a > 0 THEN 1 ELSE 0

\* The sum of the bytes of the "converted" lines among the first n lines.
RECURSIVE ConvertedBytes(_, _)
ConvertedBytes(log, n) ==
  IF n = 0 THEN 0
  ELSE ConvertedBytes(log, n - 1)
         + (IF log[n].event = "converted" THEN log[n].bytes ELSE 0)

ConvertedLines(log) == {k \in DOMAIN log : log[k].event = "converted"}

\* C1: a failure in a pipeline stage or in the encoder invocation aborts only
\* the entry being processed and never the batch: whenever the program has
\* stopped, every entry of the table has been processed and the summary has
\* been printed.
C1_FailureNeverAbortsBatch ==
  pc \in {"done", "crashed"} =>
    /\ summary.printed
    /\ Len(stdout) = Len(Table)

\* C2: an entry whose source file is missing gets a "missing" outcome, runs
\* no pipeline stage and no encoder, leaves success and total_brr_size as
\* they are, and the loop goes on with the next entry of the table.
C2_MissingSourceSkipped ==
  [][ (pc = "check" /\ ~present) =>
        /\ stdout' = Append(stdout, [entry |-> entry, event |-> "missing", bytes |-> 0])
        /\ UNCHANGED <<bufs, brr_runs, success, total_brr_size, traceback>>
        /\ entry' = entry + 1
        /\ pc' = IF entry < Len(Table) THEN "check" ELSE "summary" ]_vars

C2_Witness ==
  /\ Len(stdout) >= 2
  /\ stdout[1].event = "missing"
  /\ stdout[2].event = "converted" /\ stdout[2].entry = 2
  /\ success = 1 /\ brr_runs = 1

\* C3: trim_silence returns the suffix that starts LEAD_IN samples before the
\* first sample above the threshold (at index 0 when that sample is among the
\* first LEAD_IN), and the whole buffer when no sample is above the threshold.
C3_TrimSilence ==
  pc = "truncate" =>
    IF Loud(resampled, threshold) # {}
      THEN IsSuffixFrom(trimmed, resampled,
                        Max2(0, (MinOf(Loud(resampled, threshold)) - 1) - 16))
      ELSE trimmed = resampled

C3_Witness ==
  /\ pc = "truncate"
  /\ Loud(resampled, threshold) # {}
  /\ MinOf(Loud(resampled, threshold)) - 1 = 18
  /\ Len(trimmed) = Len(resampled) - 2
  /\ Len(trimmed) >= 17

\* C4 as claimed: for a buffer with a nonzero sample every output sample is
\* s * target_peak / peak truncated toward zero, lies in the int16 range, and
\* the output peak is within 1 of target_peak; an empty or all-zero buffer
\* comes back as it is.
C4_NormalizeExactQuotient ==
  pc = "align" =>
    IF Len(truncated) = 0 \/ PeakOf(truncated) = 0
      THEN normalized = truncated
      ELSE /\ Len(normalized) = Len(truncated)
           /\ \A k \in DOMAIN truncated :
                /\ normalized[k] = TruncDiv(truncated[k] * target_peak, PeakOf(truncated))
                /\ normalized[k] >= -32768 /\ normalized[k] <= 32767
           /\ Abs(PeakOf(normalized) - target_peak) <= 1

\* C4 as amended: the quotient is computed in double arithmetic, as
\* int(s * (target_peak / peak)); it is s * target_peak / peak truncated
\* toward zero, or one closer to zero when that quotient is a nonzero integer.
C4_NormalizeDoubleQuotient ==
  pc = "align" =>
    IF Len(truncated) = 0 \/ PeakOf(truncated) = 0
      THEN normalized = truncated
      ELSE /\ Len(normalized) = Len(truncated)
           /\ \A k \in DOMAIN truncated :
                LET n == truncated[k] * target_peak
                    q == TruncDiv(n, PeakOf(truncated))
                IN  /\ \/ normalized[k] = q
                       \/ /\ q # 0
                          /\ Abs(n) % PeakOf(truncated) = 0
                          /\ normalized[k] = q - Sign(q)
                    /\ normalized[k] >= -32768 /\ normalized[k] <= 32767
           /\ Abs(PeakOf(normalized) - target_peak) <= 1

C4_Witness ==
  /\ pc = "align"
  /\ target_peak = 28000
  /\ truncated = <<27, -27, 0>>
  /\ normalized = <<27999, -27999, 0>>

\* C5: align_brr pads with fewer than 16 zeros to a multiple of 16, keeps the
\* input as the prefix, leaves an aligned buffer (the empty one too) as it
\* is, and aligning the result again changes nothing.
C5_AlignBrr ==
  pc = "write" =>
    /\ Len(aligned) % 16 = 0
    /\ Len(aligned) - Len(normalized) < 16
    /\ IsPrefixOf(normalized, aligned)
    /\ \A k \in (Len(normalized) + 1)..Len(aligned) : aligned[k] = 0
    /\ (Len(normalized) % 16 = 0 => aligned = normalized)
    /\ align_brr(aligned) = aligned

C5_Witness ==
  /\ pc = "write"
  /\ Len(normalized) = 17
  /\ Len(aligned) = 32
  /\ aligned[17] = -17 /\ aligned[18] = 0

\* C6 as claimed: the output of downsample has floor(len * dst_rate /
\* src_rate) samples.
C6_DownsampleLengthFloor ==
  pc = "trim" => Len(resampled) = (Len(mono) * dst_rate) \div src_rate

\* The lengths the cursor walk can give: the ceiling of len * dst_rate /
\* src_rate, and one more than the quotient when the quotient is a whole
\* number that the double cursor stays just under.
WalkLengthOk(len, n, src, dst) ==
  IF n = 0 THEN len = 0
  ELSE IF (n * dst) % src = 0
    THEN len \in {(n * dst) \div src, (n * dst) \div src + 1}
    ELSE len = (n * dst) \div src + 1

\* C6 as amended: the output has ceil(len * dst_rate / src_rate) samples, or
\* one more than that when the quotient is a whole number; so it is never
\* shorter than the floor and at most one sample longer than it.
C6_DownsampleLengthCeil ==
  pc = "trim" =>
    /\ WalkLengthOk(Len(resampled), Len(mono), src_rate, dst_rate)
    /\ Len(resampled) >= (Len(mono) * dst_rate) \div src_rate
    /\ Len(resampled) <= (Len(mono) * dst_rate) \div src_rate + 1

C6_Witness ==
  /\ pc = "trim"
  /\ src_rate = 44100 /\ dst_rate = 16000
  /\ Len(mono) = 8
  /\ Len(resampled) = 3

\* C8 as claimed: output k (from 0) is samples[floor(k * src_rate /
\* dst_rate)], for exactly the k whose index is below len(samples); equal
\* rates give the input back, an empty input an empty output.
C8_DownsampleExactIndex ==
  pc = "trim" =>
    /\ Len(resampled) =
         Cardinality({k \in 0..(Len(mono) * dst_rate) :
                        (k * src_rate) \div dst_rate < Len(mono)})
    /\ \A k \in 1..Len(resampled) :
         resampled[k] = mono[((k - 1) * src_rate) \div dst_rate + 1]
    /\ (src_rate = dst_rate => resampled = mono)
    /\ (mono = <<>> => resampled = <<>>)

\* C8 as amended: output k is samples[int(i_k)] for the double cursor i_0 =
\* 0.0, i_(k+1) = i_k + src_rate / dst_rate: the index floor(k * src_rate /
\* dst_rate), or the one before it when k * src_rate / dst_rate is a whole
\* number that the cursor stays just under; the walk ends at the first k
\* whose int(i_k) is not below len(samples).
C8_DownsampleCursorIndex ==
  pc = "trim" =>
    /\ WalkLengthOk(Len(resampled), Len(mono), src_rate, dst_rate)
    /\ \A k \in 1..Len(resampled) :
         LET e == ((k - 1) * src_rate) \div dst_rate
         IN  \/ e < Len(mono) /\ resampled[k] = mono[e + 1]
             \/ /\ ((k - 1) * src_rate) % dst_rate = 0
                /\ e >= 1
                /\ resampled[k] = mono[e]
    /\ (Len(mono) > 0 => resampled[1] = mono[1])
    /\ (src_rate = dst_rate => resampled = mono)
    /\ (mono = <<>> => resampled = <<>>)

C8_Witness ==
  /\ pc = "trim"
  /\ src_rate = 1 /\ dst_rate = 10
  /\ Len(mono) = 2
  /\ Len(resampled) = 20
  /\ resampled[10] = mono[1]
  /\ resampled[11] = mono[1]
  /\ resampled[12] = mono[2]

\* The sum of the nch samples of frame j (from 1).
RECURSIVE ChannelSum(_, _, _, _)
ChannelSum(buf, j, n, c) ==
  IF c = 0 THEN 0 ELSE buf[(j - 1) * n + c] + ChannelSum(buf, j, n, c - 1)

\* C7: the mono sample of a frame is the floor of the mean of its channel
\* amplitudes (the q with q * nch <= sum < (q + 1) * nch), there is one mono
\* sample per frame, and a mono file passes through unchanged.
C7_DownmixFloor ==
  pc = "downsample" =>
    /\ Len(mono) * nch = Len(samples)
    /\ \A j \in 1..Len(mono) :
         /\ mono[j] * nch <= ChannelSum(samples, j, nch, nch)
         /\ ChannelSum(samples, j, nch, nch) < (mono[j] + 1) * nch
    /\ (nch = 1 => mono = samples)

C7_Witness ==
  /\ pc = "downsample"
  /\ nch = 2
  /\ samples = <<100, -101, -101, 0>>
  /\ mono = <<-1, -51>>

\* What C9 says of every stage but normalize: the trimmed buffer starts 16
\* samples before the first loud sample, the clamp keeps the first
\* floor(max_dur * rate) samples and never pads, the final length is a
\* multiple of 16 and the padding leaves the peak as it is.
PipeShape ==
  /\ Loud(resampled, threshold) # {} =>
       IsSuffixFrom(trimmed, resampled,
                    Max2(0, (MinOf(Loud(resampled, threshold)) - 1) - 16))
  /\ IsPrefixOf(truncated, trimmed)
  /\ Len(truncated) = Min2(Len(trimmed), (max_ms * TARGET_RATE) \div 1000)
  /\ Len(aligned) % 16 = 0
  /\ IsPrefixOf(normalized, aligned)
  /\ PeakOf(aligned) = PeakOf(normalized)

\* C9 as claimed: trim -> clamp -> normalize -> align on an input whose
\* clamped buffer has a nonzero sample ends with a peak of exactly
\* target_peak.
C9_PipelinePeakExact ==
  (pc = "write" /\ PeakOf(truncated) # 0 /\ Len(truncated) > 0) =>
    /\ PipeShape
    /\ PeakOf(aligned) = target_peak

\* C9 as amended: the final peak is target_peak or target_peak - 1.
C9_PipelinePeakWithinOne ==
  (pc = "write" /\ PeakOf(truncated) # 0 /\ Len(truncated) > 0) =>
    /\ PipeShape
    /\ PeakOf(aligned) \in {target_peak - 1, target_peak}

C9_Witness ==
  /\ pc = "write"
  /\ resampled = Fill(60, 0) \o <<27, 803>>
  /\ trimmed = Fill(15, 0) \o <<27, 803>>
  /\ max_ms = 1
  /\ Len(truncated) = 16 /\ Len(truncated) < Len(trimmed)
  /\ PeakOf(truncated) = 27
  /\ PeakOf(aligned) = 27999

====
